---- MODULE Spec2Model ----
(***************************************************************************)
(* Model of the TDK Lambda G30 controller: the TDKLambdaG30 session, the   *)
(* transport behind ICommunication (the built-in TcpPort or an injected    *)
(* implementation) and the ramp, parsing and framing helpers.              *)
(*                                                                         *)
(* Numbers.  A double is modelled as an integer count of ticks, one tick   *)
(* being a third of the last digit the set-point commands print            *)
(* (precision(3)): 1 unit (volt, ampere) = 3000 ticks.  The grid has no    *)
(* value half-way between two printed values, as no double is.  NaN is a   *)
(* separate value for which every ordered comparison is false.             *)
(*                                                                         *)
(* Text.  A string is a sequence of tokens; "\n", "\r", "\t" and " " are   *)
(* the whitespace characters, a literal of the source is one token         *)
(* followed by its terminator.                                             *)
(***************************************************************************)
EXTENDS Integers, Sequences, FiniteSets, TLC

VARIABLES
    kind,            \* which constructor built the session: "tcp" | "injected"
    isOpen_,         \* the transport's open flag
    connected_,
    outputEnabled_,
    maxVoltage_,
    maxCurrent_,
    errorHandler_,   \* TRUE when a callable error handler is installed
    call,            \* the last public call: arguments, outcome, transport I/O
    \* two threads calling sendQuery on the one session
    locking,         \* TRUE when the callers wrap each call in a mutex of their own
    owner,           \* the thread holding that mutex, 0 when it is free
    pc,              \* where each thread stands in its call
    done,            \* the calls each thread has completed
    wire,            \* the replies the instrument has sent and nobody has read
    got,             \* what each thread's last call returned
    sio              \* every write and read of the threads, in order

svars == <<kind, isOpen_, connected_, outputEnabled_, maxVoltage_, maxCurrent_,
           errorHandler_, call>>
tvars == <<locking, owner, pc, done, wire, got, sio>>
vars == <<svars, tvars>>

----------------------------------------------------------------------------
(* Bounds of the model *)

MaxTick == 3            \* small set-points and ceilings range over -1..MaxTick
MaxRampSteps == 4       \* a ramp of more intermediate steps is not explored
MaxWriteFail == 3       \* the k-th write of a call may fail, k <= MaxWriteFail
MaxCalls == 2           \* the sendQuery calls each of the two threads makes
MaxEvents == 3          \* what the socket does during one read: so many events

----------------------------------------------------------------------------
(* Numbers *)

NaN == -1000000
NoVal == -2000000                 \* "this message or result carries no number"
TicksPerUnit == 3000
DefaultMaxVoltage == 30 * TicksPerUnit
DefaultMaxCurrent == 56 * TicksPerUnit

IsNaN(a) == a = NaN
Lt(a, b) == ~IsNaN(a) /\ ~IsNaN(b) /\ a < b          \* a < b  on doubles
Gt(a, b) == ~IsNaN(a) /\ ~IsNaN(b) /\ a > b          \* a > b
Le(a, b) == ~IsNaN(a) /\ ~IsNaN(b) /\ a <= b         \* a <= b
Abs(a)  == IF a < 0 THEN -a ELSE a

\* oss.precision(3); oss << std::fixed << value : the nearest printed value
Fmt(v) ==
    IF IsNaN(v) THEN NaN
    ELSE IF v >= 0 THEN ((v + 1) \div 3) * 3
    ELSE -(((-v + 1) \div 3) * 3)

----------------------------------------------------------------------------
(* Errors: G30Exception is the only exception type; the kinds are its      *)
(* messages.                                                               *)

NoErr == "none"
ErrNotConnected == "Not connected to device"
ErrNegative == "cannot be negative"
ErrExceeds == "exceeds maximum limit"
ErrRampRate == "Ramp rate must be positive"
ErrMaxPositive == "Maximum must be positive"
ErrPortNotOpen == "TCP port is not open"
ErrSend == "Failed to send data over TCP"
ErrClosedByPeer == "TCP connection closed by remote host"
ErrOpen == "Failed to connect"
ErrEmptyAddress == "IP address is empty"
ErrSocket == "Failed to create socket"
ErrBadAddress == "Invalid IP address"
ErrNoIdn == "Failed to communicate with device"
ErrParse == "Failed to parse numeric response"
ErrConnFailed == "Connection failed: "

LimitErrors == {ErrNegative, ErrExceeds}

----------------------------------------------------------------------------
(* Text *)

WS == {" ", "\t", "\n", "\r"}

RECURSIVE FindFirstNotWS(_, _)
FindFirstNotWS(s, i) ==
    IF i > Len(s) THEN 0
    ELSE IF s[i] \notin WS THEN i ELSE FindFirstNotWS(s, i + 1)

RECURSIVE FindLastNotWS(_, _)
FindLastNotWS(s, i) ==
    IF i < 1 THEN 0
    ELSE IF s[i] \notin WS THEN i ELSE FindLastNotWS(s, i - 1)

Trim(s) ==
    LET first == FindFirstNotWS(s, 1)
        last  == FindLastNotWS(s, Len(s))
    IN  IF first = 0 THEN <<>> ELSE SubSeq(s, first, last)

\* cmd = text; if (cmd.back() != '\n') cmd += '\n';   (text non-empty)
FrameMutAlwaysAppends(t) == Append(t, "\n")
Frame(t) == IF t[Len(t)] # "\n" THEN Append(t, "\n") ELSE t

----------------------------------------------------------------------------
(* The running call.  x is the session and transport state while a public   *)
(* call executes, with the transport I/O done so far (io), the exception    *)
(* in flight (err) and the value the last step returned (text, num, flag).  *)
(* nw and nr count the writes and reads of the call.  e is what the          *)
(* environment does during the call: whether the TCP connect succeeds,      *)
(* which write fails (0: none) and what each read returns.                  *)

\* PowerSupplyStatus()
DefaultStatus == [outputEnabled |-> FALSE, overVoltageProtection |-> FALSE,
                  overCurrentProtection |-> FALSE, overPowerProtection |-> FALSE,
                  overTemperature |-> FALSE, remoteSensing |-> FALSE,
                  ccMode |-> FALSE, cvMode |-> FALSE]

\* a * b on doubles, kept as its two factors: the product of the default
\* ceilings, in ticks, is beyond the integers of the checker
Product(a, b) == <<a, b>>

\* PowerSupplyCapabilities()
DefaultCaps == [maxVoltage |-> 0, maxCurrent |-> 0, maxPower |-> Product(0, 0),
                numberOfChannels |-> 1, supportsRemoteSensing |-> FALSE,
                supportsOVP |-> FALSE, supportsOCP |-> FALSE, supportsOPP |-> FALSE,
                supportsSequencing |-> FALSE]

\* acc: the bytes of a write that the transport accepted
Ev(t, text, val, ok) == [t |-> t, text |-> text, val |-> val, ok |-> ok,
                         acc |-> Len(text)]

\* what a read comes back with
Returned(d) == [raise |-> FALSE, data |-> d]
PeerClosed == [raise |-> TRUE, data |-> <<>>]

Ctx == [open |-> isOpen_, conn |-> connected_, out |-> outputEnabled_,
        maxV |-> maxVoltage_, maxC |-> maxCurrent_,
        hset |-> errorHandler_,
        io |-> <<>>, err |-> NoErr, text |-> <<>>, num |-> NoVal, flag |-> FALSE,
        status |-> DefaultStatus, caps |-> DefaultCaps, handler |-> 0,
        nw |-> 0, nr |-> 0]

Throw(x, m) == [x EXCEPT !.err = m]
Try(x, F(_)) == IF x.err # NoErr THEN x ELSE F(x)

\* TcpPort::open
PortOpen(x, e) ==
    IF x.open THEN x
    ELSE IF e.openOk
         THEN [x EXCEPT !.open = TRUE, !.io = Append(@, Ev("open", <<>>, NoVal, TRUE))]
         ELSE [x EXCEPT !.err = ErrOpen, !.io = Append(@, Ev("open", <<>>, NoVal, FALSE))]

\* TcpPort::write / ICommunication::write
PortWrite(x, text, val, e) ==
    IF ~x.open THEN Throw(x, ErrPortNotOpen)
    ELSE LET ok == e.wfail # x.nw + 1
             \* send() may accept fewer bytes than it was given; the count is
             \* what write returns
             acc == IF ok /\ e.short = x.nw + 1 THEN Len(text) - 1 ELSE Len(text)
         IN  [x EXCEPT !.io = Append(@, [Ev("write", text, val, ok) EXCEPT !.acc = acc]),
                       !.nw = @ + 1,
                       !.err = IF ok THEN NoErr ELSE ErrSend]

\* TcpPort::read / ICommunication::read: the accumulated bytes, or the
\* exception raised when the peer has closed the connection
PortRead(x, e) ==
    IF ~x.open THEN Throw(x, ErrPortNotOpen)
    ELSE LET r == e.reads[x.nr + 1]
         IN  IF r.raise
             THEN [x EXCEPT !.io = Append(@, Ev("read", <<>>, NoVal, FALSE)), !.nr = @ + 1,
                            !.err = ErrClosedByPeer]
             ELSE [x EXCEPT !.io = Append(@, Ev("read", r.data, NoVal, TRUE)), !.nr = @ + 1,
                            !.text = r.data]

\* TcpPort::close / ICommunication::close
PortCloseMutKeepOpen(x) == x
PortClose(x) ==
    IF ~x.open THEN x
    ELSE [x EXCEPT !.open = FALSE, !.io = Append(@, Ev("close", <<>>, NoVal, TRUE))]

----------------------------------------------------------------------------
(* TcpPort, call by call on the socket.  The steps on the OS handle are     *)
(* the events socket, connect, closesocket, send of a call; a read is one   *)
(* event with the bytes it returned.  sockfd_ is not kept: it is >= 0       *)
(* whenever isOpen_ is true, and it is read only by close() and by the      *)
(* send, poll and recv that come after the isOpen_ check.                   *)

Sys(t, ok) == Ev(t, <<>>, NoVal, ok)

\* TcpPort::open; how is what the address and the network make of it
OpenOutcomes == {"ok", "empty", "nosocket", "badaddr", "refused"}
TcpOpenMutLeaksOnRefused(x, how) ==
    IF x.open THEN x
    ELSE IF how = "empty" THEN Throw(x, ErrEmptyAddress)
    ELSE IF how = "nosocket"
         THEN [x EXCEPT !.err = ErrSocket, !.io = @ \o <<Sys("socket", FALSE)>>]
    ELSE IF how = "badaddr"
         THEN [x EXCEPT !.err = ErrBadAddress,
                        !.io = @ \o <<Sys("socket", TRUE), Sys("closesocket", TRUE)>>]
    ELSE IF how = "refused"
         THEN [x EXCEPT !.err = ErrOpen,
                        !.io = @ \o <<Sys("socket", TRUE), Sys("connect", FALSE)>>]
    ELSE [x EXCEPT !.open = TRUE,
                   !.io = @ \o <<Sys("socket", TRUE), Sys("connect", TRUE)>>]
TcpOpen(x, how) ==
    IF x.open THEN x
    ELSE IF how = "empty" THEN Throw(x, ErrEmptyAddress)
    ELSE IF how = "nosocket"
         THEN [x EXCEPT !.err = ErrSocket, !.io = @ \o <<Sys("socket", FALSE)>>]
    ELSE IF how = "badaddr"
         THEN [x EXCEPT !.err = ErrBadAddress,
                        !.io = @ \o <<Sys("socket", TRUE), Sys("closesocket", TRUE)>>]
    ELSE IF how = "refused"
         THEN [x EXCEPT !.err = ErrOpen,
                        !.io = @ \o <<Sys("socket", TRUE), Sys("connect", FALSE),
                                      Sys("closesocket", TRUE)>>]
    ELSE [x EXCEPT !.open = TRUE,
                   !.io = @ \o <<Sys("socket", TRUE), Sys("connect", TRUE)>>]

\* TcpPort::close
TcpClose(x) ==
    IF ~x.open THEN x
    ELSE [x EXCEPT !.open = FALSE, !.io = Append(@, Sys("closesocket", TRUE))]

\* TcpPort::write; sent is the result of send(): -1, or the bytes accepted
TcpWrite(x, data, sent) ==
    IF ~x.open THEN Throw(x, ErrPortNotOpen)
    ELSE IF sent < 0
         THEN [x EXCEPT !.err = ErrSend, !.io = Append(@, Ev("send", data, NoVal, FALSE))]
    ELSE [x EXCEPT !.num = sent,
                   !.io = Append(@, [Ev("send", data, NoVal, TRUE) EXCEPT !.acc = sent])]

\* what the socket does at one turn of the read loop: recv delivers bytes,
\* poll reports nothing, recv fails, or recv returns 0 (the peer has closed)
Chunk(d) == [k |-> "chunk", data |-> d]
Idle == [k |-> "idle", data |-> <<>>]
RecvError == [k |-> "error", data |-> <<>>]
PeerEof == [k |-> "eof", data |-> <<>>]

HasNewline(s) == \E j \in DOMAIN s : s[j] = "\n"

\* the loop of TcpPort::read.  The script is what happens until the
\* timeout has elapsed: when it is used up the loop breaks.
RECURSIVE ReadLoop(_, _, _)
ReadLoop(result, script, i) ==
    IF i > Len(script) THEN Returned(result)
    ELSE LET ev == script[i]
         IN  IF ev.k = "chunk"
             THEN IF HasNewline(result \o ev.data) THEN Returned(result \o ev.data)
                  ELSE ReadLoop(result \o ev.data, script, i + 1)
             ELSE IF ev.k = "eof" THEN PeerClosed
             ELSE ReadLoop(result, script, i + 1)

\* TcpPort::read
TcpReadMutTimeoutRaises(x, script) ==
    IF ~x.open THEN Throw(x, ErrPortNotOpen)
    ELSE LET r == ReadLoop(<<>>, script, 1)
         IN  IF r.raise \/ ~HasNewline(r.data)
             THEN [x EXCEPT !.io = Append(@, Ev("read", <<>>, NoVal, FALSE)),
                            !.err = ErrClosedByPeer]
             ELSE [x EXCEPT !.io = Append(@, Ev("read", r.data, NoVal, TRUE)),
                            !.text = r.data]
TcpRead(x, script) ==
    IF ~x.open THEN Throw(x, ErrPortNotOpen)
    ELSE LET r == ReadLoop(<<>>, script, 1)
         IN  IF r.raise
             THEN [x EXCEPT !.io = Append(@, Ev("read", <<>>, NoVal, FALSE)),
                            !.err = ErrClosedByPeer]
             ELSE [x EXCEPT !.io = Append(@, Ev("read", r.data, NoVal, TRUE)),
                            !.text = r.data]

----------------------------------------------------------------------------
(* TDKLambdaG30 *)

isConnected(x) == x.conn /\ x.open

validateVoltageMutNoUpper(x, v) ==
    IF Lt(v, 0) THEN Throw(x, ErrNegative) ELSE x
validateVoltage(x, v) ==
    IF Lt(v, 0) THEN Throw(x, ErrNegative)
    ELSE IF Gt(v, x.maxV) THEN Throw(x, ErrExceeds)
    ELSE x

validateCurrent(x, c) ==
    IF Lt(c, 0) THEN Throw(x, ErrNegative)
    ELSE IF Gt(c, x.maxC) THEN Throw(x, ErrExceeds)
    ELSE x

sendCommandMutReadsReply(x, text, e) ==
    IF ~isConnected(x) THEN Throw(x, ErrNotConnected)
    ELSE LET x1 == PortWrite(x, Frame(text), NoVal, e)
             x2 == Try(x1, LAMBDA y : PortRead(y, e))
         IN  Try(x2, LAMBDA y : [y EXCEPT !.text = <<"OK">>])
sendCommand(x, text, e) ==
    IF ~isConnected(x) THEN Throw(x, ErrNotConnected)
    ELSE LET x1 == PortWrite(x, Frame(text), NoVal, e)
         IN  Try(x1, LAMBDA y : [y EXCEPT !.text = <<"OK">>])

sendQueryMutThrowOnEmpty(x, text, e) ==
    IF ~isConnected(x) /\ ~x.open THEN Throw(x, ErrNotConnected)
    ELSE LET x1 == PortWrite(x, Frame(text), NoVal, e)
             x2 == Try(x1, LAMBDA y : PortRead(y, e))
         IN  Try(x2, LAMBDA y : IF Trim(y.text) = <<>> THEN Throw(y, ErrParse)
                                ELSE [y EXCEPT !.text = Trim(y.text)])
sendQuery(x, text, e) ==
    IF ~isConnected(x) /\ ~x.open THEN Throw(x, ErrNotConnected)
    ELSE LET x1 == PortWrite(x, Frame(text), NoVal, e)
             x2 == Try(x1, LAMBDA y : PortRead(y, e))
         IN  Try(x2, LAMBDA y : [y EXCEPT !.text = Trim(y.text)])

getIdentification(x, e) ==
    IF ~isConnected(x) /\ ~x.open THEN Throw(x, ErrNotConnected)
    ELSE sendQuery(x, <<"*IDN?">>, e)

disconnectMutKeepsFlag(x) == PortClose(x)
disconnectMutKeepsPort(x) == [x EXCEPT !.conn = FALSE]
disconnectMutClearsOutput(x) == [PortClose(x) EXCEPT !.conn = FALSE, !.out = FALSE]
disconnect(x) == [PortClose(x) EXCEPT !.conn = FALSE]

reset(x, e) ==
    IF ~isConnected(x) THEN Throw(x, ErrNotConnected)
    ELSE LET x1 == PortWrite(x, <<"*RST", "\n">>, NoVal, e)
         IN  Try(x1, LAMBDA y : [y EXCEPT !.out = FALSE])

clearProtection(x, e) ==
    IF ~isConnected(x) THEN Throw(x, ErrNotConnected)
    ELSE PortWrite(x, <<"*CLS", "\n">>, NoVal, e)

connectMutRepeatsHandshake(x, e) ==
    LET x1 == IF kind = "tcp" THEN PortOpen(x, e) ELSE x
        x2 == Try(x1, LAMBDA y : getIdentification(y, e))
        x3 == Try(x2, LAMBDA y : IF y.text = <<>> THEN Throw(y, ErrNoIdn) ELSE y)
        x4 == Try(x3, LAMBDA y : [y EXCEPT !.conn = TRUE])
        x5 == Try(x4, LAMBDA y : reset(y, e))
        x6 == Try(x5, LAMBDA y : clearProtection(y, e))
    IN  IF x6.err # NoErr
        THEN [disconnect([x6 EXCEPT !.err = NoErr]) EXCEPT !.err = ErrConnFailed]
        ELSE x6
connectMutNoIdnCheck(x, e) ==
    IF x.conn THEN x
    ELSE LET x1 == IF kind = "tcp" THEN PortOpen(x, e) ELSE x
             x2 == Try(x1, LAMBDA y : getIdentification(y, e))
             x4 == Try(x2, LAMBDA y : [y EXCEPT !.conn = TRUE])
             x5 == Try(x4, LAMBDA y : reset(y, e))
             x6 == Try(x5, LAMBDA y : clearProtection(y, e))
         IN  IF x6.err # NoErr
             THEN [disconnect([x6 EXCEPT !.err = NoErr]) EXCEPT !.err = ErrConnFailed]
             ELSE x6
connectMutSkipsReset(x, e) ==
    IF x.conn THEN x
    ELSE LET x1 == IF kind = "tcp" THEN PortOpen(x, e) ELSE x
             x2 == Try(x1, LAMBDA y : getIdentification(y, e))
             x3 == Try(x2, LAMBDA y : IF y.text = <<>> THEN Throw(y, ErrNoIdn) ELSE y)
             x4 == Try(x3, LAMBDA y : [y EXCEPT !.conn = TRUE])
             x6 == Try(x4, LAMBDA y : clearProtection(y, e))
         IN  IF x6.err # NoErr
             THEN [disconnect([x6 EXCEPT !.err = NoErr]) EXCEPT !.err = ErrConnFailed]
             ELSE x6
connectMutNoCleanup(x, e) ==
    IF x.conn THEN x
    ELSE LET x1 == IF kind = "tcp" THEN PortOpen(x, e) ELSE x
             x2 == Try(x1, LAMBDA y : getIdentification(y, e))
             x3 == Try(x2, LAMBDA y : IF y.text = <<>> THEN Throw(y, ErrNoIdn) ELSE y)
             x4 == Try(x3, LAMBDA y : [y EXCEPT !.conn = TRUE])
             x5 == Try(x4, LAMBDA y : reset(y, e))
             x6 == Try(x5, LAMBDA y : clearProtection(y, e))
         IN  IF x6.err # NoErr THEN [x6 EXCEPT !.err = ErrConnFailed] ELSE x6
connect(x, e) ==
    IF x.conn THEN x
    ELSE LET x1 == IF kind = "tcp" THEN PortOpen(x, e) ELSE x
             x2 == Try(x1, LAMBDA y : getIdentification(y, e))
             x3 == Try(x2, LAMBDA y : IF y.text = <<>> THEN Throw(y, ErrNoIdn) ELSE y)
             x4 == Try(x3, LAMBDA y : [y EXCEPT !.conn = TRUE])
             x5 == Try(x4, LAMBDA y : reset(y, e))
             x6 == Try(x5, LAMBDA y : clearProtection(y, e))
         IN  IF x6.err # NoErr
             THEN [disconnect([x6 EXCEPT !.err = NoErr]) EXCEPT !.err = ErrConnFailed]
             ELSE x6

enableOutputMutSetsFirst(x, enable, e) ==
    IF ~isConnected(x) THEN Throw(x, ErrNotConnected)
    ELSE [PortWrite(x, <<(IF enable THEN "OUTP ON" ELSE "OUTP OFF"), "\n">>, NoVal, e)
             EXCEPT !.out = enable]
enableOutput(x, enable, e) ==
    IF ~isConnected(x) THEN Throw(x, ErrNotConnected)
    ELSE LET x1 == PortWrite(x, <<(IF enable THEN "OUTP ON" ELSE "OUTP OFF"), "\n">>, NoVal, e)
         IN  Try(x1, LAMBDA y : [y EXCEPT !.out = enable])

isOutputEnabledMutOneOnly(x, e) ==
    IF ~isConnected(x) THEN Throw(x, ErrNotConnected)
    ELSE LET x1 == sendQuery(x, <<"OUTP?">>, e)
         IN  Try(x1, LAMBDA y : [y EXCEPT !.flag = (Trim(y.text) = <<"1">>)])
isOutputEnabledMutUpdatesFlag(x, e) ==
    IF ~isConnected(x) THEN Throw(x, ErrNotConnected)
    ELSE LET x1 == sendQuery(x, <<"OUTP?">>, e)
         IN  Try(x1, LAMBDA y :
                 LET on == (Trim(y.text) = <<"1">> \/ Trim(y.text) = <<"O", "N">>)
                 IN  [y EXCEPT !.flag = on, !.out = on])
isOutputEnabled(x, e) ==
    IF ~isConnected(x) THEN Throw(x, ErrNotConnected)
    ELSE LET x1 == sendQuery(x, <<"OUTP?">>, e)
         IN  Try(x1, LAMBDA y :
                 [y EXCEPT !.flag = (Trim(y.text) = <<"1">> \/ Trim(y.text) = <<"O", "N">>)])

\* ~TDKLambdaG30: the body, whose exceptions are all swallowed
destructorMutDisconnectsFirst(x, e) ==
    LET x1 == IF x.conn THEN enableOutput(disconnect(x), FALSE, e) ELSE x
    IN  [x1 EXCEPT !.err = NoErr]
destructor(x, e) ==
    LET x1 == IF x.conn
              THEN Try(enableOutput(x, FALSE, e), LAMBDA y : disconnect(y))
              ELSE x
    IN  [x1 EXCEPT !.err = NoErr]

\* the destruction of comm_ after the body.  ~TcpPort calls close(); the
\* destructor of an injected transport is whatever its class defines
\* (ICommunication's own is defaulted): closes tells whether it closes
destroyTransport(x, k, closes) ==
    IF k = "tcp" \/ closes THEN PortClose(x) ELSE x

----------------------------------------------------------------------------
(* Numeric parsing: std::stod on the trimmed response.  It reads an         *)
(* optional sign, digits, an optional fraction, and stops at the first      *)
(* character that cannot continue the number; it fails when there is no     *)
(* digit to convert.  The value is in ticks; fraction digits finer than a   *)
(* tick are dropped.                                                        *)

Digits == <<"0", "1", "2", "3", "4", "5", "6", "7", "8", "9">>
IsDigit(c) == \E d \in DOMAIN Digits : Digits[d] = c
DigitVal(c) == (CHOOSE d \in DOMAIN Digits : Digits[d] = c) - 1

RECURSIVE DigitsEnd(_, _)
DigitsEnd(s, i) == IF i <= Len(s) /\ IsDigit(s[i]) THEN DigitsEnd(s, i + 1) ELSE i

RECURSIVE IntOf(_, _, _)
IntOf(s, i, j) == IF i >= j THEN 0 ELSE IntOf(s, i, j - 1) * 10 + DigitVal(s[j - 1])

RECURSIVE Pow10(_)
Pow10(n) == IF n = 0 THEN 1 ELSE 10 * Pow10(n - 1)

Stod(s) ==
    LET neg   == Len(s) >= 1 /\ s[1] = "-"
        i0    == IF Len(s) >= 1 /\ s[1] \in {"-", "+"} THEN 2 ELSE 1
        i1    == DigitsEnd(s, i0)
        dot   == i1 <= Len(s) /\ s[i1] = "."
        f0    == i1 + 1
        f1    == IF dot THEN DigitsEnd(s, f0) ELSE f0
        nint  == i1 - i0
        nfrac == f1 - f0
        mag   == IntOf(s, i0, i1) * TicksPerUnit
                 + (IF nfrac > 0 THEN (IntOf(s, f0, f1) * TicksPerUnit) \div Pow10(nfrac) ELSE 0)
    IN  [ok |-> nint + nfrac > 0, val |-> IF neg THEN -mag ELSE mag,
         end |-> IF dot THEN f1 ELSE i1]

parseNumericResponseMutZero(x) ==
    LET r == Stod(Trim(x.text))
    IN  [x EXCEPT !.num = IF r.ok THEN r.val ELSE 0]
parseNumericResponse(x) ==
    LET r == Stod(Trim(x.text))
    IN  IF r.ok THEN [x EXCEPT !.num = r.val] ELSE Throw(x, ErrParse)

NumQuery(x, q, e) ==
    IF ~isConnected(x) THEN Throw(x, ErrNotConnected)
    ELSE Try(sendQuery(x, <<q>>, e), LAMBDA y : parseNumericResponse(y))

getVoltage(x, e) == NumQuery(x, "VOLT?", e)
measureVoltage(x, e) == NumQuery(x, "MEAS:VOLT?", e)
getCurrent(x, e) == NumQuery(x, "CURR?", e)
measureCurrent(x, e) == NumQuery(x, "MEAS:CURR?", e)
getOverVoltageProtection(x, e) == NumQuery(x, "VOLT:PROT?", e)

\* the product is kept in square ticks
measurePowerMutSetPoints(x, e) ==
    IF ~isConnected(x) THEN Throw(x, ErrNotConnected)
    ELSE LET x1 == getVoltage(x, e)
             x2 == Try(x1, LAMBDA y : getCurrent(y, e))
         IN  Try(x2, LAMBDA y : [y EXCEPT !.num = x1.num * y.num])
measurePower(x, e) ==
    IF ~isConnected(x) THEN Throw(x, ErrNotConnected)
    ELSE LET x1 == measureVoltage(x, e)
             x2 == Try(x1, LAMBDA y : measureCurrent(y, e))
         IN  Try(x2, LAMBDA y : [y EXCEPT !.num = x1.num * y.num])

----------------------------------------------------------------------------
(* Set-points *)

SetCmd(x, verb, v, e) ==
    IF ~isConnected(x) THEN Throw(x, ErrNotConnected)
    ELSE PortWrite(x, <<verb, "#", "\n">>, Fmt(v), e)

setVoltageMutConnFirst(x, v, e) ==
    IF ~isConnected(x) THEN Throw(x, ErrNotConnected)
    ELSE Try(validateVoltage(x, v), LAMBDA y : SetCmd(y, "VOLT ", v, e))
setVoltage(x, v, e) ==
    Try(validateVoltage(x, v), LAMBDA y : SetCmd(y, "VOLT ", v, e))

setCurrent(x, c, e) ==
    Try(validateCurrent(x, c), LAMBDA y : SetCmd(y, "CURR ", c, e))

setOverVoltageProtection(x, v, e) == SetCmd(x, "VOLT:PROT ", v, e)

----------------------------------------------------------------------------
(* Ramps.  steps = difference / rampRate * 10 and the step size             *)
(* (target - current) / steps are computed exactly; the rates explored are  *)
(* multiples of 10 ticks per second, for which the step size is a whole     *)
(* number of ticks.  When steps is NaN the conversion static_cast<int> is   *)
(* undefined (as it is for the infinite steps of a zero rate, which the     *)
(* rate check keeps out): the loop count is then whatever the environment   *)
(* picks (e.ub).                                                             *)

ErrBound == "ramp longer than MaxRampSteps"

Add(a, b) == IF IsNaN(a) \/ IsNaN(b) THEN NaN ELSE a + b

\* currentVoltage += stepVoltage; setVoltage(currentVoltage).  The sum of
\* doubles carries a rounding error far below a tick, of sign e.round
\* (0: the sum is exact).  It decides the range check when the exact sum
\* is the bound itself: 0.1 added 300 times to 0 is 30.000000000000156.
RampSet(x, next, e, volt) ==
    LET ceiling == IF volt THEN x.maxV ELSE x.maxC
    IN  IF e.round < 0 /\ next = 0 THEN Throw(x, ErrNegative)
        ELSE IF e.round > 0 /\ ~IsNaN(next) /\ next = ceiling THEN Throw(x, ErrExceeds)
        ELSE IF volt THEN setVoltage(x, next, e) ELSE setCurrent(x, next, e)

RECURSIVE RampLoop(_, _, _, _, _, _, _)
RampLoop(x, cur, step, i, n, e, volt) ==
    IF i >= n \/ x.err # NoErr THEN x
    ELSE LET next == Add(cur, step)
             x1 == RampSet(x, next, e, volt)
         IN  RampLoop(x1, next, step, i + 1, n, e, volt)

\* validateVoltage(voltage); if (rampRate <= 0) throw ...
RampPreMutNoRateCheck(x, target, rampRate, volt) ==
    IF volt THEN validateVoltage(x, target) ELSE validateCurrent(x, target)
RampPreMutNoValidate(x, target, rampRate, volt) ==
    IF Le(rampRate, 0) THEN Throw(x, ErrRampRate) ELSE x
RampPre(x, target, rampRate, volt) ==
    Try(IF volt THEN validateVoltage(x, target) ELSE validateCurrent(x, target),
        LAMBDA y : IF Le(rampRate, 0) THEN Throw(y, ErrRampRate) ELSE y)

\* static_cast<int>(difference / rampRate * 10)
RampStepsMutRoundsUp(difference, rampRate) ==
    (difference * 10 + rampRate - 1) \div rampRate
RampSteps(difference, rampRate) == (difference * 10) \div rampRate

\* the closing setVoltage(voltage) / setCurrent(current)
RampFinalMutSkip(x, target, e, volt) == x
RampFinal(x, target, e, volt) ==
    IF volt THEN setVoltage(x, target, e) ELSE setCurrent(x, target, e)

Ramp(x, target, rampRate, e, volt) ==
    LET x2 == RampPre(x, target, rampRate, volt)
        x3 == Try(x2, LAMBDA y : IF volt THEN getVoltage(y, e) ELSE getCurrent(y, e))
        cur == x3.num
        und == IsNaN(target) \/ IsNaN(cur) \/ IsNaN(rampRate) \/ rampRate = 0
        difference == IF und THEN NaN ELSE Abs(target - cur)
        n == IF und THEN e.ub ELSE RampSteps(difference, rampRate)
        step == IF und \/ difference = 0 THEN NaN
                ELSE ((target - cur) * rampRate) \div (difference * 10)
    IN  IF x3.err # NoErr THEN x3
        ELSE IF n > MaxRampSteps THEN Throw(x3, ErrBound)
        ELSE Try(RampLoop(x3, cur, step, 0, n, e, volt),
                 LAMBDA y : RampFinal(y, target, e, volt))

setVoltageWithRamp(x, voltage, rampRate, e) ==
    Ramp(x, voltage, rampRate, e, TRUE)

setCurrentWithRamp(x, current, rampRate, e) ==
    Ramp(x, current, rampRate, e, FALSE)

----------------------------------------------------------------------------
(* Status, error queue, ceilings *)

\* static_cast<int>(value): truncation toward zero, value in whole units
ToInt(v) == IF v >= 0 THEN v \div TicksPerUnit ELSE -((-v) \div TicksPerUnit)
\* (n & mask) != 0 for a one-bit mask
BitMutAtLeast(n, mask) == n >= mask
Bit(n, mask) == (n \div mask) % 2 = 1

getStatus(x, e) ==
    IF ~isConnected(x) THEN Throw(x, ErrNotConnected)
    ELSE LET x1 == isOutputEnabled(x, e)
             x2 == Try(x1, LAMBDA y : [y EXCEPT !.status.outputEnabled = y.flag])
             x3 == Try(x2, LAMBDA y : sendQuery(y, <<"STAT:QUES?">>, e))
             x4 == Try(x3, LAMBDA y : parseNumericResponse(y))
             x5 == Try(x4, LAMBDA y :
                       LET statValue == ToInt(y.num)
                       IN  [y EXCEPT !.status.overVoltageProtection = Bit(statValue, 1),
                                     !.status.overCurrentProtection = Bit(statValue, 2),
                                     !.status.overTemperature = Bit(statValue, 16)])
         IN  IF x5.err # NoErr
             THEN [x5 EXCEPT !.err = NoErr,
                             !.handler = IF x5.hset THEN @ + 1 ELSE @]
             ELSE x5

checkError(x, e) ==
    IF ~isConnected(x) THEN Throw(x, ErrNotConnected)
    ELSE sendQuery(x, <<"SYST:ERR?">>, e)

getCapabilities(x) ==
    [x EXCEPT !.caps = [DefaultCaps EXCEPT
        !.maxVoltage = x.maxV,
        !.maxCurrent = x.maxC,
        !.maxPower = Product(x.maxV, x.maxC),
        !.numberOfChannels = 1,
        !.supportsRemoteSensing = FALSE,
        !.supportsOVP = TRUE,
        !.supportsOCP = TRUE,
        !.supportsOPP = FALSE,
        !.supportsSequencing = FALSE]]

setMaxVoltageMutNeedsConnection(x, m) ==
    IF ~isConnected(x) THEN Throw(x, ErrNotConnected)
    ELSE IF Le(m, 0) THEN Throw(x, ErrMaxPositive) ELSE [x EXCEPT !.maxV = m]
setMaxVoltage(x, m) ==
    IF Le(m, 0) THEN Throw(x, ErrMaxPositive) ELSE [x EXCEPT !.maxV = m]

setMaxCurrent(x, m) ==
    IF Le(m, 0) THEN Throw(x, ErrMaxPositive) ELSE [x EXCEPT !.maxC = m]

setErrorHandler(x, h) == [x EXCEPT !.hset = h]

----------------------------------------------------------------------------
(* Inputs and environment *)

\* set-points and ramp targets: around 0, around a small ceiling, around the
\* default ceiling, and NaN
SetPoints == (-1 .. MaxTick) \cup {DefaultMaxVoltage, DefaultMaxVoltage + 1, NaN}
RampTargets == {-1, 0, MaxTick - 1, MaxTick, DefaultMaxVoltage + 1, NaN}
Limits == {-1, 0, MaxTick - 1, NaN}
\* ramp rates, in ticks per second
RampRates == {0, 10, NaN}
RawTexts == {<<"X">>, <<"X", "\n">>, <<"\n">>}

\* what a read can hand back: nothing before the timeout, a blank line,
\* "1", " 0.001" (one printed step), text that is no number
Responses == { <<>>, <<"\r", "\n">>, <<"1", "\n">>,
               <<" ", "0", ".", "0", "0", "1", "\n">>, <<"x", "\n">> }

\* replies to the set-point query of a ramp: none, and " 0.001"
RampStarts == { <<>>, <<" ", "0", ".", "0", "0", "1", "\n">> }

\* the ramps on their own: rates below, at and above zero, a rate whose
\* step is larger than a printed step, and a start two printed steps up
RampRatesAll == {-10, 0, 10, 40}
RampStartsAll == RampStarts \cup { <<"0", ".", "0", "0", "2", "\n">> }

\* replies to the status query: none, no number, and register values with
\* the decoded bits (0, 1, 4) and the other bits set and clear
StatusReplies == { <<>>, <<"x", "\n">>, <<"0", "\n">>, <<"1", "\n">>, <<"2", "\n">>,
                   <<"1", "6", "\n">>, <<"1", "9", "\n">>,
                   <<"2", "3", "6", "\n">>, <<"2", "5", "5", "\n">> }

\* replies to the output-state query and to the numeric queries: none,
\* blank, "1", "ON", other words, a number with spaces around it, a number
\* with a fraction, a negative number, a number with a unit after it
QueryReplies == { <<>>, <<"\r", "\n">>, <<"1", "\n">>, <<"O", "N", "\n">>,
                  <<"O", "F", "F", "\n">>, <<"0", "\n">>, <<" ", "1", " ", "\r", "\n">>,
                  <<"1", ".", "5", "\n">>, <<"-", "1", "\n">>, <<"1", "V", "\n">>,
                  <<"V", "1", "\n">> }

\* what the socket can do at a turn of the read loop, and what it does
\* until the timeout
ReadEvents == {Chunk(<<"1">>), Chunk(<<"\n">>), Chunk(<<"1", "\n", "2">>),
               Idle, RecvError, PeerEof}
Scripts == UNION {[1 .. n -> ReadEvents] : n \in 0 .. MaxEvents}

\* ceilings to tighten to and to loosen to
LimitsAll == Limits \cup {MaxTick}

ReadOutcomes == {Returned(d) : d \in Responses} \cup {PeerClosed}

Env(openOk, wfail, r1, r2, ub) ==
    [openOk |-> openOk, wfail |-> wfail, reads |-> <<r1, r2>>, ub |-> ub, short |-> 0,
     round |-> 0]

\* a ramp whose running sum is rounded down, is exact, or is rounded up
Roundings == {-1, 0, 1}
EnvRound(wfail, r, round) == [Env(TRUE, wfail, r, r, 0) EXCEPT !.round = round]

\* a call during which the short-th write is accepted short of its last byte
EnvShort(wfail, r, short) == [Env(TRUE, wfail, r, r, 0) EXCEPT !.short = short]
SH == IF isOpen_ THEN {0, 1} ELSE {0}

\* the choices that can matter in the current state
WF == IF isOpen_ THEN 0 .. MaxWriteFail ELSE {0}
WF1 == IF isOpen_ THEN {0, 1} ELSE {0}
RO == IF isOpen_ THEN ReadOutcomes ELSE {Returned(<<>>)}
ROf(D) == IF isOpen_ THEN {Returned(d) : d \in D} \cup {PeerClosed} ELSE {Returned(<<>>)}
UB(a, b) == IF IsNaN(a) \/ IsNaN(b) THEN {0, 1} ELSE {0}
\* a ramp that is rejected before its query does no I/O
RampRejected(volt, v, rate) == RampPre(Ctx, v, rate, volt).err # NoErr
RampWF(volt, v, rate) == IF RampRejected(volt, v, rate) THEN {0} ELSE WF
RampRO(volt, v, rate, D) ==
    IF RampRejected(volt, v, rate) \/ ~isOpen_ THEN {Returned(<<>>)}
    ELSE {Returned(d) : d \in D} \cup {PeerClosed}

NoArgs == [v |-> NoVal, rate |-> NoVal, b |-> FALSE, text |-> <<>>]

Pre == [open |-> isOpen_, conn |-> connected_, out |-> outputEnabled_,
        maxV |-> maxVoltage_, maxC |-> maxCurrent_, hset |-> errorHandler_]

\* the threads that share the session, and the calls each of them makes
Threads == {1, 2}
NoResult == [n |-> 0, lines |-> <<>>, err |-> NoErr]

ThreadsNotStarted ==
    /\ sio = <<>>
    /\ \A t \in Threads : pc[t] = "idle" /\ done[t] = 0

\* the call returns (normally or by exception) and leaves the session as r
Commit(op, args, r) ==
    /\ call.op # "destroy"            \* a destroyed session takes no calls
    /\ ThreadsNotStarted              \* the session is set up before it is shared
    /\ UNCHANGED tvars
    /\ r.err # ErrBound
    /\ isOpen_' = r.open
    /\ connected_' = r.conn
    /\ outputEnabled_' = r.out
    /\ maxVoltage_' = r.maxV
    /\ maxCurrent_' = r.maxC
    /\ errorHandler_' = r.hset
    /\ kind' = kind
    /\ call' = [op |-> op, args |-> args, err |-> r.err, io |-> r.io,
                text |-> IF r.err = NoErr THEN r.text ELSE <<>>,
                num |-> IF r.err = NoErr THEN r.num ELSE NoVal,
                flag |-> r.err = NoErr /\ r.flag,
                status |-> IF r.err = NoErr THEN r.status ELSE DefaultStatus,
                caps |-> r.caps,
                handler |-> r.handler,
                pre |-> Pre]

InitSession ==
    /\ kind \in {"tcp", "injected"}
    /\ isOpen_ \in (IF kind = "tcp" THEN {FALSE} ELSE BOOLEAN)
    /\ connected_ = FALSE
    /\ outputEnabled_ = FALSE
    /\ maxVoltage_ = DefaultMaxVoltage
    /\ maxCurrent_ = DefaultMaxCurrent
    /\ errorHandler_ = FALSE
    /\ call = [op |-> "new", args |-> NoArgs, err |-> NoErr, io |-> <<>>,
               text |-> <<>>, num |-> NoVal, flag |-> FALSE,
               status |-> DefaultStatus, caps |-> DefaultCaps, handler |-> 0,
               pre |-> Pre]

InitThreadsIdle ==
    /\ owner = 0
    /\ pc = [t \in Threads |-> "idle"]
    /\ done = [t \in Threads |-> 0]
    /\ wire = <<>>
    /\ got = [t \in Threads |-> NoResult]
    /\ sio = <<>>

Init ==
    /\ locking = FALSE
    /\ InitThreadsIdle
    /\ InitSession

InitThreads ==
    /\ locking \in BOOLEAN
    /\ InitThreadsIdle
    /\ InitSession

----------------------------------------------------------------------------
(* The public operations *)

Connect ==
    \E ok \in BOOLEAN, wf \in 0 .. MaxWriteFail, r \in ReadOutcomes :
        Commit("connect", NoArgs, connect(Ctx, Env(ok, wf, r, r, 0)))

Disconnect == Commit("disconnect", NoArgs, disconnect(Ctx))

\* the session goes out of scope
Destroy ==
    \E wf \in WF1, closes \in (IF kind = "tcp" THEN {TRUE} ELSE BOOLEAN) :
        Commit("destroy", NoArgs,
               destroyTransport(
                   destructor(Ctx, Env(TRUE, wf, PeerClosed, PeerClosed, 0)),
                   kind, closes))

EnableOutput ==
    \E b \in BOOLEAN, wf \in WF1 :
        Commit("enableOutput", [NoArgs EXCEPT !.b = b],
               enableOutput(Ctx, b, Env(TRUE, wf, PeerClosed, PeerClosed, 0)))

IsOutputEnabled(D) ==
    \E wf \in WF1, r \in ROf(D) :
        Commit("isOutputEnabled", NoArgs, isOutputEnabled(Ctx, Env(TRUE, wf, r, r, 0)))

Reset ==
    \E wf \in WF1 :
        Commit("reset", NoArgs, reset(Ctx, Env(TRUE, wf, PeerClosed, PeerClosed, 0)))

ClearProtection ==
    \E wf \in WF1 :
        Commit("clearProtection", NoArgs,
               clearProtection(Ctx, Env(TRUE, wf, PeerClosed, PeerClosed, 0)))

SetVoltage(V) ==
    \E v \in V, wf \in WF1 :
        Commit("setVoltage", [NoArgs EXCEPT !.v = v],
               setVoltage(Ctx, v, Env(TRUE, wf, PeerClosed, PeerClosed, 0)))

SetCurrent(V) ==
    \E c \in V, wf \in WF1 :
        Commit("setCurrent", [NoArgs EXCEPT !.v = c],
               setCurrent(Ctx, c, Env(TRUE, wf, PeerClosed, PeerClosed, 0)))

SetOverVoltageProtection ==
    \E v \in {-1, 1, NaN}, wf \in WF1 :
        Commit("setOverVoltageProtection", [NoArgs EXCEPT !.v = v],
               setOverVoltageProtection(Ctx, v, Env(TRUE, wf, PeerClosed, PeerClosed, 0)))

GetVoltage(D) ==
    \E wf \in WF1, r \in ROf(D) :
        Commit("getVoltage", NoArgs, getVoltage(Ctx, Env(TRUE, wf, r, r, 0)))

GetCurrent(D) ==
    \E wf \in WF1, r \in ROf(D) :
        Commit("getCurrent", NoArgs, getCurrent(Ctx, Env(TRUE, wf, r, r, 0)))

MeasureVoltage(D) ==
    \E wf \in WF1, r \in ROf(D) :
        Commit("measureVoltage", NoArgs, measureVoltage(Ctx, Env(TRUE, wf, r, r, 0)))

MeasureCurrent(D) ==
    \E wf \in WF1, r \in ROf(D) :
        Commit("measureCurrent", NoArgs, measureCurrent(Ctx, Env(TRUE, wf, r, r, 0)))

GetOverVoltageProtection(D) ==
    \E wf \in WF1, r \in ROf(D) :
        Commit("getOverVoltageProtection", NoArgs,
               getOverVoltageProtection(Ctx, Env(TRUE, wf, r, r, 0)))

MeasurePower ==
    \E wf \in WF, r1 \in RO, r2 \in RO :
        Commit("measurePower", NoArgs, measurePower(Ctx, Env(TRUE, wf, r1, r2, 0)))

SetVoltageWithRamp(V, R, D) ==
    \E v \in V, rate \in R : \E wf \in RampWF(TRUE, v, rate), r \in RampRO(TRUE, v, rate, D),
                               ub \in UB(v, rate) :
        Commit("setVoltageWithRamp", [NoArgs EXCEPT !.v = v, !.rate = rate],
               setVoltageWithRamp(Ctx, v, rate, Env(TRUE, wf, r, r, ub)))

SetCurrentWithRamp(V, R, D) ==
    \E c \in V, rate \in R : \E wf \in RampWF(FALSE, c, rate), r \in RampRO(FALSE, c, rate, D),
                               ub \in UB(c, rate) :
        Commit("setCurrentWithRamp", [NoArgs EXCEPT !.v = c, !.rate = rate],
               setCurrentWithRamp(Ctx, c, rate, Env(TRUE, wf, r, r, ub)))

GetIdentification ==
    \E wf \in WF1, r \in RO :
        Commit("getIdentification", NoArgs, getIdentification(Ctx, Env(TRUE, wf, r, r, 0)))

GetStatus(D) ==
    \E wf \in WF, r1 \in RO,
       r2 \in (IF isOpen_ THEN {Returned(d) : d \in D} \cup {PeerClosed} ELSE {Returned(<<>>)}) :
        Commit("getStatus", NoArgs, getStatus(Ctx, Env(TRUE, wf, r1, r2, 0)))

CheckError ==
    \E wf \in WF1, r \in RO :
        Commit("checkError", NoArgs, checkError(Ctx, Env(TRUE, wf, r, r, 0)))

GetCapabilities == Commit("getCapabilities", NoArgs, getCapabilities(Ctx))

SetMaxVoltage(L) ==
    \E m \in L :
        Commit("setMaxVoltage", [NoArgs EXCEPT !.v = m], setMaxVoltage(Ctx, m))

SetMaxCurrent(L) ==
    \E m \in L :
        Commit("setMaxCurrent", [NoArgs EXCEPT !.v = m], setMaxCurrent(Ctx, m))

SendCommand ==
    \E t \in RawTexts, wf \in WF1 :
        Commit("sendCommand", [NoArgs EXCEPT !.text = t],
               sendCommand(Ctx, t, Env(TRUE, wf, PeerClosed, PeerClosed, 0)))

SendQuery ==
    \E t \in RawTexts, wf \in WF1, r \in RO :
        Commit("sendQuery", [NoArgs EXCEPT !.text = t],
               sendQuery(Ctx, t, Env(TRUE, wf, r, r, 0)))

SetErrorHandler ==
    \E h \in BOOLEAN :
        Commit("setErrorHandler", [NoArgs EXCEPT !.b = h], setErrorHandler(Ctx, h))

\* The session and its transport: every operation, the ceilings as constructed.
Next ==
    \/ Connect
    \/ Disconnect
    \/ EnableOutput
    \/ IsOutputEnabled(Responses)
    \/ Reset
    \/ ClearProtection
    \/ SetVoltage({-1, 0})
    \/ SetCurrent({0, DefaultMaxCurrent + 1})
    \/ SetOverVoltageProtection
    \/ GetVoltage(Responses)
    \/ GetCurrent(Responses)
    \/ MeasureVoltage(Responses)
    \/ MeasureCurrent(Responses)
    \/ GetOverVoltageProtection(Responses)
    \/ MeasurePower
    \/ SetVoltageWithRamp({0, NaN}, {0, 10 * TicksPerUnit}, Responses)
    \/ SetCurrentWithRamp({0, DefaultMaxCurrent + 1}, {10 * TicksPerUnit}, Responses)
    \/ GetIdentification
    \/ GetStatus(Responses)
    \/ CheckError
    \/ SendCommand
    \/ SendQuery

Spec == Init /\ [][Next]_vars

\* Set-points, ramps and ceilings.
NextLimits ==
    \/ Connect
    \/ Disconnect
    \/ SetVoltage(SetPoints)
    \/ SetCurrent(SetPoints)
    \/ SetVoltageWithRamp(RampTargets, RampRates, RampStarts)
    \/ SetCurrentWithRamp(RampTargets, RampRates, RampStarts)
    \/ SetMaxVoltage(Limits)
    \/ SetMaxCurrent(Limits)

SpecLimits == Init /\ [][NextLimits]_vars

\* The queries and what they make of the reply.
NextQuery ==
    \/ Connect
    \/ Disconnect
    \/ EnableOutput
    \/ IsOutputEnabled(QueryReplies)
    \/ GetVoltage(QueryReplies)
    \/ GetCurrent(QueryReplies)
    \/ MeasureVoltage(QueryReplies)
    \/ MeasureCurrent(QueryReplies)
    \/ GetOverVoltageProtection(QueryReplies)

SpecQuery == Init /\ [][NextQuery]_vars

\* the life of a session up to its destruction
NextTeardown ==
    \/ Connect
    \/ Disconnect
    \/ EnableOutput
    \/ IsOutputEnabled(Responses)
    \/ Reset
    \/ SetMaxVoltage({MaxTick})
    \/ SetMaxCurrent({MaxTick})
    \/ Destroy

SpecTeardown == Init /\ [][NextTeardown]_vars

----------------------------------------------------------------------------
(* The ramps in floating point, between ceilings that were tightened.       *)

\* targets at the bounds and inside, rates with steps of one tick and more
SetVoltageWithRampRounded ==
    \E v \in {0, MaxTick - 1, MaxTick}, rate \in {10, 40} :
    \E wf \in RampWF(TRUE, v, rate), r \in RampRO(TRUE, v, rate, RampStartsAll),
       rd \in Roundings :
        Commit("setVoltageWithRamp", [NoArgs EXCEPT !.v = v, !.rate = rate],
               setVoltageWithRamp(Ctx, v, rate, EnvRound(wf, r, rd)))

SetCurrentWithRampRounded ==
    \E c \in {0, MaxTick - 1, MaxTick}, rate \in {10, 40} :
    \E wf \in RampWF(FALSE, c, rate), r \in RampRO(FALSE, c, rate, RampStartsAll),
       rd \in Roundings :
        Commit("setCurrentWithRamp", [NoArgs EXCEPT !.v = c, !.rate = rate],
               setCurrentWithRamp(Ctx, c, rate, EnvRound(wf, r, rd)))

NextRound ==
    \/ Connect
    \/ Disconnect
    \/ SetMaxVoltage({MaxTick})
    \/ SetMaxCurrent({MaxTick})
    \/ SetVoltageWithRampRounded
    \/ SetCurrentWithRampRounded

SpecRound == Init /\ [][NextRound]_vars

----------------------------------------------------------------------------
(* The commands on a link whose send() may come back short.                 *)

SetVoltageShort ==
    \E v \in {0, MaxTick}, wf \in WF1, sh \in SH :
        Commit("setVoltage", [NoArgs EXCEPT !.v = v],
               setVoltage(Ctx, v, EnvShort(wf, PeerClosed, sh)))

SetCurrentShort ==
    \E c \in {0, MaxTick}, wf \in WF1, sh \in SH :
        Commit("setCurrent", [NoArgs EXCEPT !.v = c],
               setCurrent(Ctx, c, EnvShort(wf, PeerClosed, sh)))

EnableOutputShort ==
    \E b \in BOOLEAN, wf \in WF1, sh \in SH :
        Commit("enableOutput", [NoArgs EXCEPT !.b = b],
               enableOutput(Ctx, b, EnvShort(wf, PeerClosed, sh)))

ResetShort ==
    \E wf \in WF1, sh \in SH :
        Commit("reset", NoArgs, reset(Ctx, EnvShort(wf, PeerClosed, sh)))

SendCommandShort ==
    \E t \in RawTexts, wf \in WF1, sh \in SH :
        Commit("sendCommand", [NoArgs EXCEPT !.text = t],
               sendCommand(Ctx, t, EnvShort(wf, PeerClosed, sh)))

SendQueryShort ==
    \E t \in RawTexts, wf \in WF1, r \in RO, sh \in SH :
        Commit("sendQuery", [NoArgs EXCEPT !.text = t],
               sendQuery(Ctx, t, EnvShort(wf, r, sh)))

NextShort ==
    \/ Connect
    \/ Disconnect
    \/ SetVoltageShort
    \/ SetCurrentShort
    \/ EnableOutputShort
    \/ ResetShort
    \/ SendCommandShort
    \/ SendQueryShort

SpecShort == Init /\ [][NextShort]_vars

----------------------------------------------------------------------------
(* The TCP transport on its own: open, write, read and close as the         *)
(* session calls them on commPort_.                                         *)

TcpPortOpen ==
    /\ kind = "tcp"
    /\ \E how \in (IF isOpen_ THEN {"ok"} ELSE OpenOutcomes) :
          Commit("open", [NoArgs EXCEPT !.text = <<how>>], TcpOpen(Ctx, how))

TcpPortClose ==
    /\ kind = "tcp"
    /\ Commit("close", NoArgs, TcpClose(Ctx))

TcpPortWrite ==
    /\ kind = "tcp"
    /\ \E d \in RawTexts : \E sent \in (IF isOpen_ THEN -1 .. Len(d) ELSE {0}) :
          Commit("write", [NoArgs EXCEPT !.text = d, !.v = sent], TcpWrite(Ctx, d, sent))

TcpPortRead ==
    /\ kind = "tcp"
    /\ \E script \in (IF isOpen_ THEN Scripts ELSE {<<>>}) :
          Commit("read", [NoArgs EXCEPT !.text = script], TcpRead(Ctx, script))

NextPort ==
    \/ TcpPortOpen
    \/ TcpPortClose
    \/ TcpPortWrite
    \/ TcpPortRead

SpecPort == Init /\ [][NextPort]_vars

----------------------------------------------------------------------------
(* Two threads calling sendQuery on the same session.  The session holds    *)
(* no lock: a call is the entry check and the write, a 50 ms sleep, then    *)
(* the read, and the other thread may run between the two.  The callers     *)
(* either wrap every call in a mutex of their own (locking) or do not.      *)
(* The instrument answers the queries in the order it receives them; a      *)
(* reply is named after the call whose query it answers.  The connection    *)
(* stays up while the session is shared: a write that fails and a read      *)
(* that finds the peer gone are outcomes of the single-threaded calls       *)
(* above.                                                                    *)

IoEv(t, by, n) == [t |-> t, by |-> by, n |-> n]

\* sendQuery is const: the session's fields stay, and the last public call
\* is a sendQuery whose I/O is kept in sio
Shared ==
    /\ UNCHANGED <<kind, isOpen_, connected_, outputEnabled_, maxVoltage_,
                   maxCurrent_, errorHandler_, locking>>
    /\ call' = [op |-> "sendQuery", args |-> NoArgs, err |-> NoErr, io |-> <<>>,
                text |-> <<>>, num |-> NoVal, flag |-> FALSE,
                status |-> DefaultStatus, caps |-> DefaultCaps, handler |-> 0,
                pre |-> Pre]

\* the caller's lock_guard around the call
AcquireMutNoExclusion(t) ==
    /\ locking /\ pc[t] = "idle" /\ done[t] < MaxCalls
    /\ owner' = t
    /\ pc' = [pc EXCEPT ![t] = "held"]
    /\ Shared /\ UNCHANGED <<done, wire, got, sio>>
Acquire(t) ==
    /\ locking /\ pc[t] = "idle" /\ done[t] < MaxCalls
    /\ owner = 0
    /\ owner' = t
    /\ pc' = [pc EXCEPT ![t] = "held"]
    /\ Shared /\ UNCHANGED <<done, wire, got, sio>>

Release(t) ==
    /\ locking /\ pc[t] = "returned" /\ owner = t
    /\ owner' = 0
    /\ pc' = [pc EXCEPT ![t] = "idle"]
    /\ Shared /\ UNCHANGED <<done, wire, got, sio>>

\* the thread may enter sendQuery; where it stands once the call is over
Ready(t) == pc[t] = (IF locking THEN "held" ELSE "idle") /\ done[t] < MaxCalls
After == IF locking THEN "returned" ELSE "idle"

Returns(t, lines, err) ==
    /\ got' = [got EXCEPT ![t] = [n |-> done[t] + 1, lines |-> lines, err |-> err]]
    /\ done' = [done EXCEPT ![t] = @ + 1]
    /\ pc' = [pc EXCEPT ![t] = After]

\* sendQuery on a session that is not connected and whose port is closed
QueryRejected(t) ==
    /\ Ready(t)
    /\ ~isConnected(Ctx) /\ ~isOpen_
    /\ Returns(t, <<>>, ErrNotConnected)
    /\ Shared /\ UNCHANGED <<owner, wire, sio>>

\* sendQuery up to commPort_->write(cmd)
QueryWrite(t) ==
    /\ Ready(t)
    /\ ~(~isConnected(Ctx) /\ ~isOpen_)
    /\ sio' = Append(sio, IoEv("write", t, done[t] + 1))
    /\ wire' = Append(wire, <<t, done[t] + 1>>)
    /\ pc' = [pc EXCEPT ![t] = "written"]
    /\ Shared /\ UNCHANGED <<owner, got, done>>

\* sendQuery from commPort_->read on: the read takes what has arrived, up
\* to a newline (one recv may deliver several replies), or nothing when
\* it times out before the reply is there (the reply then arrives later)
QueryRead(t) ==
    /\ pc[t] = "written"
    /\ \E k \in 0 .. Len(wire) :
          /\ sio' = Append(sio, IoEv("read", t, done[t] + 1))
          /\ Returns(t, SubSeq(wire, 1, k), NoErr)
          /\ wire' = SubSeq(wire, k + 1, Len(wire))
    /\ Shared /\ UNCHANGED owner

ThreadStep(t) ==
    \/ Acquire(t)
    \/ QueryRejected(t)
    \/ QueryWrite(t)
    \/ QueryRead(t)
    \/ Release(t)

NextThreads ==
    \/ Connect
    \/ \E t \in Threads : ThreadStep(t)

SpecThreads == InitThreads /\ [][NextThreads]_vars

\* The ramps.
NextRamp ==
    \/ Connect
    \/ Disconnect
    \/ SetVoltageWithRamp(RampTargets, RampRatesAll, RampStartsAll)
    \/ SetCurrentWithRamp(RampTargets, RampRatesAll, RampStartsAll)

SpecRamp == Init /\ [][NextRamp]_vars

\* The status snapshot and the error handler.
NextStatus ==
    \/ Connect
    \/ Disconnect
    \/ SetErrorHandler
    \/ GetStatus(StatusReplies)

SpecStatus == Init /\ [][NextStatus]_vars

\* The ceilings and the direct set-points.
NextCeiling ==
    \/ Connect
    \/ Disconnect
    \/ SetVoltage(SetPoints)
    \/ SetCurrent(SetPoints)
    \/ SetMaxVoltage(LimitsAll)
    \/ SetMaxCurrent(LimitsAll)
    \/ GetCapabilities

SpecCeiling == Init /\ [][NextCeiling]_vars

----------------------------------------------------------------------------
(* Vocabulary of the properties *)

SetOps == {"setVoltage", "setCurrent", "setVoltageWithRamp", "setCurrentWithRamp"}
RampOps == {"setVoltageWithRamp", "setCurrentWithRamp"}
VoltOps == {"setVoltage", "setVoltageWithRamp"}
LifecycleOps == {"new", "connect", "disconnect"}
LocalOps == {"setMaxVoltage", "setMaxCurrent", "setErrorHandler", "getCapabilities"}
IsDeviceOp(op) == op \notin LifecycleOps \cup LocalOps

\* the ceiling the last call was checked against
CeilingOf(c) == IF c.op \in VoltOps THEN c.pre.maxV ELSE c.pre.maxC
OutOfRange(c) == Lt(c.args.v, 0) \/ Gt(c.args.v, CeilingOf(c))
Writes(io) == SelectSeq(io, LAMBDA ev : ev.t = "write")
WasConnected(c) == c.pre.conn /\ c.pre.open
NoReadWrite(io) == \A i \in DOMAIN io : io[i].t \notin {"write", "read"}
SessionUnchanged == call.pre = Pre
IsSetPointWrite(ev) == ev.t = "write" /\ ev.text[1] \in {"VOLT ", "CURR "}
EmptyReads(io) == {i \in DOMAIN io : io[i].t = "read" /\ io[i].ok /\ Trim(io[i].text) = <<>>}

----------------------------------------------------------------------------
(* C1: on a connected session, setVoltage(v) with v < 0 or v above the      *)
(* voltage ceiling in force raises the limit error, writes nothing to the   *)
(* transport and leaves connected, outputEnabled and both ceilings (and the *)
(* transport) as they were; the same for setCurrent and the current ceiling *)
C1_LimitRejectedBeforeIO ==
    (call.op \in {"setVoltage", "setCurrent"} /\ WasConnected(call) /\ OutOfRange(call))
        => /\ call.err \in LimitErrors
           /\ Writes(call.io) = <<>>
           /\ SessionUnchanged

C1_Witness ==
    /\ call.op = "setVoltage" /\ WasConnected(call)
    /\ call.pre.maxV # DefaultMaxVoltage
    /\ Gt(call.args.v, call.pre.maxV)
    /\ call.err = ErrExceeds

(* C2: every VOLT (CURR) set-point command written to the transport, by a   *)
(* direct set or by a step of a ramp, carries a value v with                *)
(* 0 <= v <= the voltage (current) ceiling in force when it was written.    *)
(* (The ceilings do not change while a call runs: the ceiling in force is   *)
(* the one the call started with.)                                          *)
C2_WrittenSetPointsWithinCeiling ==
    call.op \in SetOps =>
        \A i \in DOMAIN call.io :
            IsSetPointWrite(call.io[i]) =>
                Le(0, call.io[i].val) /\ Le(call.io[i].val, CeilingOf(call))

(* C3: when the identification query of connect() gets an empty response,   *)
(* connect() raises the connection error and leaves the transport closed    *)
(* and the session not connected.                                           *)
C3_FailedConnectClosesTransport ==
    (call.op = "connect" /\ EmptyReads(call.io) # {})
        => call.err = ErrConnFailed /\ ~isOpen_ /\ ~connected_

C3_Witness ==
    /\ call.op = "connect" /\ EmptyReads(call.io) # {}
    /\ \E i \in DOMAIN call.io : call.io[i].t = "close"

(* C4: connect() on a session that is already connected raises nothing,     *)
(* leaves connected true and does no transport open, write or read.         *)
C4_ConnectIdempotent ==
    (call.op = "connect" /\ call.pre.conn)
        => call.err = NoErr /\ connected_ /\ call.io = <<>> /\ SessionUnchanged

C4_Witness == call.op = "connect" /\ call.pre.conn /\ call.pre.open /\ call.err = NoErr

(* C5: while no connect() has succeeded, every device operation raises (the *)
(* not-connected error, or for a set-point or ramp whose argument is        *)
(* rejected first, that argument's error) and does no transport write or    *)
(* read, whether or not the transport handed to the session is open.        *)
C5_NoDeviceOperationBeforeConnect ==
    (IsDeviceOp(call.op) /\ ~call.pre.conn)
        => /\ call.err \in {ErrNotConnected, ErrNegative, ErrExceeds, ErrRampRate}
           /\ NoReadWrite(call.io)

(* C6: after disconnect() returns the transport is closed, and from then on *)
(* every device operation raises and does no transport write or read, until *)
(* a connect() succeeds.                                                    *)
C6_RejectedAfterDisconnect ==
    /\ [](call.op = "disconnect" => ~isOpen_)
    /\ [][~isOpen_ =>
            \/ call'.op = "connect" /\ call'.err = NoErr
            \/ /\ ~isOpen_'
               /\ IsDeviceOp(call'.op) => call'.err # NoErr /\ NoReadWrite(call'.io)]_vars

C6_Witness ==
    /\ call.op = "sendQuery" /\ call.err = ErrNotConnected
    /\ kind = "injected" /\ outputEnabled_

(* C7 as stated: a set-point or ramp call on a session that is not          *)
(* connected raises the not-connected error whatever its arguments are.     *)
C7_NotConnectedForEveryArgument ==
    (call.op \in SetOps /\ ~call.pre.conn) => call.err = ErrNotConnected

(* C7 amended: such a call always raises and does no I/O; the error is the  *)
(* limit error when the set-point is negative or above the ceiling, else    *)
(* the invalid-rate error when a ramp's rate is <= 0, and the not-connected *)
(* error in every other case: the arguments are checked first.              *)
C7_ArgumentsCheckedBeforeConnection ==
    (call.op \in SetOps /\ ~call.pre.conn)
        => /\ call.io = <<>>
           /\ SessionUnchanged
           /\ call.err = IF Lt(call.args.v, 0) THEN ErrNegative
                         ELSE IF Gt(call.args.v, CeilingOf(call)) THEN ErrExceeds
                         ELSE IF call.op \in RampOps /\ Le(call.args.rate, 0) THEN ErrRampRate
                         ELSE ErrNotConnected

C7_Witness ==
    /\ call.op = "setCurrentWithRamp" /\ ~call.pre.conn
    /\ Le(call.args.rate, 0) /\ call.err = ErrRampRate

(* C8: disconnect() never raises and always leaves the transport closed and *)
(* connected false; a second disconnect() right after the first changes     *)
(* nothing.                                                                 *)
C8_DisconnectTotalAndIdempotent ==
    /\ [](call.op = "disconnect" => call.err = NoErr /\ ~isOpen_ /\ ~connected_)
    /\ [][(call.op = "disconnect" /\ call'.op = "disconnect")
             => Pre' = Pre /\ call'.io = <<>>]_vars

C8_Witness ==
    /\ call.op = "disconnect" /\ WasConnected(call) /\ call.pre.out
    /\ \E i \in DOMAIN call.io : call.io[i].t = "close"

(* C9 as stated: sendQuery raises whenever its read returns empty, and      *)
(* never hands an empty string to its caller.                               *)
C9_EmptyReadRaises ==
    call.op = "sendQuery" =>
        /\ EmptyReads(call.io) # {} => call.err # NoErr
        /\ call.err = NoErr => call.text # <<>>

(* C9 amended: when the read of sendQuery returns empty or only whitespace  *)
(* (nothing arrived before the timeout, a blank line), sendQuery raises     *)
(* nothing and returns the empty string.                                    *)
C9_EmptyReadReturnsEmpty ==
    (call.op = "sendQuery" /\ EmptyReads(call.io) # {})
        => call.err = NoErr /\ call.text = <<>>

C9_Witness ==
    /\ call.op = "sendQuery" /\ call.err = NoErr /\ call.text = <<>>
    /\ \E i \in DOMAIN call.io : call.io[i].t = "read" /\ call.io[i].text = <<>>

----------------------------------------------------------------------------
LastOf(w) == w[Len(w)]
InRange(c) == Le(0, c.args.v) /\ Le(c.args.v, CeilingOf(c))
RstWritten(io) ==
    \E i \in DOMAIN io : io[i].t = "write" /\ io[i].ok /\ io[i].text = <<"*RST", "\n">>

(* C11: every message written to the transport ends with the line           *)
(* terminator; for a non-empty text t given to sendCommand or sendQuery the *)
(* bytes written are t itself when t already ends with "\n" and t followed  *)
(* by exactly one "\n" otherwise, so that framing what was written changes  *)
(* nothing.                                                                 *)
C11_LineFraming ==
    /\ \A i \in DOMAIN call.io :
          call.io[i].t = "write" => LastOf(call.io[i].text) = "\n"
    /\ (call.op \in {"sendCommand", "sendQuery"} /\ Writes(call.io) # <<>>)
          => LET t == call.args.text
                 w == Writes(call.io)[1].text
             IN  /\ w = IF LastOf(t) = "\n" THEN t ELSE t \o <<"\n">>
                 /\ Frame(w) = w

C11_Witness ==
    /\ call.op = "sendQuery" /\ call.args.text = <<"X", "\n">>
    /\ Writes(call.io) # <<>> /\ Writes(call.io)[1].text = <<"X", "\n">>

(* C12: outputEnabled differs from its value before the last call only when *)
(* that call was an enableOutput(e) that returned without error (it is e),  *)
(* a reset() that returned without error (it is false), or a connect()      *)
(* whose inner reset() went through (it is false); a successful             *)
(* enableOutput, reset or connect always leaves it so, and an enableOutput  *)
(* or reset that raises leaves it as it was.                                *)
C12_OutputFlagFollowsSuccessfulCommands ==
    /\ outputEnabled_ # call.pre.out =>
          \/ call.op = "enableOutput" /\ call.err = NoErr /\ outputEnabled_ = call.args.b
          \/ call.op = "reset" /\ call.err = NoErr /\ ~outputEnabled_
          \/ call.op = "connect" /\ RstWritten(call.io) /\ ~outputEnabled_
    /\ (call.op = "enableOutput" /\ call.err = NoErr) => outputEnabled_ = call.args.b
    /\ (call.op = "reset" /\ call.err = NoErr) => ~outputEnabled_
    /\ (call.op = "connect" /\ call.err = NoErr /\ ~call.pre.conn) => ~outputEnabled_
    /\ (call.op \in {"enableOutput", "reset"} /\ call.err # NoErr)
          => outputEnabled_ = call.pre.out

C12_Witness ==
    /\ call.op = "enableOutput" /\ call.err = ErrSend
    /\ call.pre.out /\ ~call.args.b /\ outputEnabled_

----------------------------------------------------------------------------
\* a ramp that ran to its end on numbers: target and rate as the claims take them
CompletedRamp(c) ==
    /\ c.op \in RampOps /\ c.err = NoErr
    /\ InRange(c) /\ Gt(c.args.rate, 0)
\* the programmed value the ramp read back
RampStart(c) == Stod(Trim(c.io[2].text)).val
QueryOf(c) == IF c.op \in VoltOps THEN <<"VOLT?", "\n">> ELSE <<"CURR?", "\n">>

(* C13: when a ramp to an in-range target at a rate > 0 completes, the last *)
(* message written to the transport is a set-point command that carries the *)
(* target itself (as setVoltage(target) prints it), whatever the running    *)
(* value of the last step was.                                              *)
C13_RampEndsOnTarget ==
    CompletedRamp(call) =>
        LET w == Writes(call.io)
        IN  /\ Len(w) >= 2
            /\ LastOf(call.io) = LastOf(w)
            /\ IsSetPointWrite(LastOf(w))
            /\ LastOf(w).val = Fmt(call.args.v)

C13_Witness ==
    /\ CompletedRamp(call) /\ Len(Writes(call.io)) >= 3
    /\ Writes(call.io)[Len(Writes(call.io)) - 1].val # LastOf(Writes(call.io)).val

C15_NonPositiveRateRejected ==
    (call.op \in RampOps /\ InRange(call) /\ Le(call.args.rate, 0))
        => call.err = ErrRampRate /\ call.io = <<>> /\ SessionUnchanged

C15_Witness ==
    /\ call.op = "setVoltageWithRamp" /\ WasConnected(call) /\ InRange(call)
    /\ Lt(call.args.rate, 0) /\ call.err = ErrRampRate

(* C16 as stated: a ramp to a target outside [0, ceiling] first queries the *)
(* programmed value (a write and a read), and raises the range error only   *)
(* after that round trip.                                                   *)
C16_RangeErrorAfterQuery ==
    (call.op \in RampOps /\ WasConnected(call) /\ OutOfRange(call) /\ Gt(call.args.rate, 0))
        => /\ Len(call.io) >= 1
           /\ call.io[1].t = "write" /\ call.io[1].text = QueryOf(call)

(* C16 amended: the target of a ramp is checked first: a target outside     *)
(* [0, ceiling] raises the range error before the rate is looked at and     *)
(* before any transport I/O, so that the programmed value is never queried  *)
(* and no set command is written.                                           *)
C16_RampTargetPreChecked ==
    (call.op \in RampOps /\ OutOfRange(call))
        => call.err \in LimitErrors /\ call.io = <<>> /\ SessionUnchanged

C16_Witness ==
    /\ call.op = "setVoltageWithRamp" /\ WasConnected(call)
    /\ Gt(call.args.v, CeilingOf(call)) /\ Gt(call.args.rate, 0)
    /\ call.err = ErrExceeds /\ call.io = <<>>

----------------------------------------------------------------------------
\* getStatus on a connected session that has an error handler
MonitoredStatus(c) == c.op = "getStatus" /\ WasConnected(c) /\ c.pre.hset
\* the output-state query went through: its write and its read returned
FirstQueryDone(c) ==
    /\ Len(c.io) >= 2
    /\ c.io[1].t = "write" /\ c.io[1].ok /\ c.io[1].text = <<"OUTP?", "\n">>
    /\ c.io[2].t = "read" /\ c.io[2].ok
\* the output-state query failed: its write or its read raised, or nothing
\* arrived before the timeout
FirstQueryFailed(c) ==
    \/ Len(c.io) = 1 /\ ~c.io[1].ok
    \/ Len(c.io) >= 2 /\ c.io[2].t = "read" /\ (~c.io[2].ok \/ c.io[2].text = <<>>)
\* the status query failed: transport error, empty or unparsable response
SecondQueryFailed(c) ==
    \/ Len(c.io) = 3 /\ ~c.io[3].ok
    \/ Len(c.io) = 4 /\ (~c.io[4].ok \/ ~Stod(Trim(c.io[4].text)).ok)
DecodedOutput(c) == Trim(c.io[2].text) \in {<<"1">>, <<"O", "N">>}

C18_FirstQueryFailureReported ==
    (MonitoredStatus(call) /\ FirstQueryFailed(call))
        => /\ call.err = NoErr
           /\ call.status = DefaultStatus
           /\ call.handler >= 1

(* C19: when the status query returns a non-negative integer n, the         *)
(* snapshot has overVoltageProtection = bit 0 of n, overCurrentProtection = *)
(* bit 1 of n, overTemperature = bit 4 of n, whatever the other bits are;   *)
(* overPowerProtection, remoteSensing, ccMode and cvMode are false in every *)
(* snapshot.                                                                *)
C19_StatusBitsDecoded ==
    call.op = "getStatus" =>
        /\ ~call.status.overPowerProtection /\ ~call.status.remoteSensing
        /\ ~call.status.ccMode /\ ~call.status.cvMode
        /\ (call.err = NoErr /\ Len(call.io) = 4 /\ call.io[4].ok
               /\ Stod(Trim(call.io[4].text)).ok)
              => LET n == Stod(Trim(call.io[4].text)).val \div TicksPerUnit
                 IN  /\ call.status.overVoltageProtection = (n % 2 = 1)
                     /\ call.status.overCurrentProtection = ((n \div 2) % 2 = 1)
                     /\ call.status.overTemperature = ((n \div 16) % 2 = 1)

C19_Witness ==
    /\ call.op = "getStatus" /\ call.err = NoErr /\ Len(call.io) = 4
    /\ call.io[4].text = <<"2", "3", "6", "\n">>
    /\ call.status = [DefaultStatus EXCEPT !.outputEnabled = TRUE]

----------------------------------------------------------------------------
SetMaxOps == {"setMaxVoltage", "setMaxCurrent"}
CeilingNow(op) == IF op \in {"setMaxVoltage", "setVoltage"} THEN maxVoltage_ ELSE maxCurrent_
DirectSetOf(op) == IF op = "setMaxVoltage" THEN "setVoltage" ELSE "setCurrent"
Accepted(c) == c.err \notin LimitErrors

(* C20: setMaxVoltage(l) / setMaxCurrent(l) with l <= 0 raises the          *)
(* invalid-argument error and leaves the ceiling (and the rest of the       *)
(* session) unchanged; with l > 0 it returns and the ceiling is l; and the  *)
(* setVoltage(v) / setCurrent(v) that comes right after a successful update *)
(* to l passes the range check exactly when 0 <= v <= l.                    *)
C20_CeilingUpdateTakesEffect ==
    /\ [](call.op \in SetMaxOps =>
            /\ Le(call.args.v, 0) => call.err = ErrMaxPositive /\ SessionUnchanged
            /\ Gt(call.args.v, 0) => call.err = NoErr /\ CeilingNow(call.op) = call.args.v)
    /\ [][(call.op \in SetMaxOps /\ Gt(call.args.v, 0) /\ call'.op = DirectSetOf(call.op))
             => (Accepted(call') <=> (Le(0, call'.args.v) /\ Le(call'.args.v, call.args.v)))]_vars

----------------------------------------------------------------------------
NumOps == {"getVoltage", "getCurrent", "measureVoltage", "measureCurrent",
           "getOverVoltageProtection"}
\* the call wrote its query and the read that followed returned
RoundTripDone(c) ==
    /\ Len(c.io) = 2
    /\ c.io[1].t = "write" /\ c.io[1].ok
    /\ c.io[2].t = "read" /\ c.io[2].ok
Reply(c) == Trim(c.io[2].text)
\* the whole text is a number: sign, digits, fraction, and nothing after
IsNumber(s) == Stod(s).ok /\ Stod(s).end = Len(s) + 1

(* C21: measurePower on a connected session writes the live voltage query,  *)
(* reads, writes the live current query, reads, and returns the product of  *)
(* the two parsed replies (12.48 and 2.49 give 31.0752); it writes no other *)
(* query.                                                                   *)
C21_PowerIsProductOfTwoMeasurements ==
    /\ Stod(<<"1", "2", ".", "4", "8">>).val * Stod(<<"2", ".", "4", "9">>).val
          = 310752 * ((TicksPerUnit * TicksPerUnit) \div 10000)
    /\ (call.op = "measurePower" /\ WasConnected(call)) =>
          /\ Len(call.io) \in 1 .. 4
          /\ call.io[1].t = "write" /\ call.io[1].text = <<"MEAS:VOLT?", "\n">>
          /\ Len(call.io) >= 2 => call.io[2].t = "read"
          /\ Len(call.io) >= 3 =>
                call.io[3].t = "write" /\ call.io[3].text = <<"MEAS:CURR?", "\n">>
          /\ Len(call.io) = 4 => call.io[4].t = "read"
          /\ call.err = NoErr =>
                /\ Len(call.io) = 4
                /\ call.num = Stod(Trim(call.io[2].text)).val
                                 * Stod(Trim(call.io[4].text)).val

C21_Witness ==
    /\ call.op = "measurePower" /\ WasConnected(call) /\ call.err = NoErr
    /\ call.num # 0 /\ call.io[2].text # call.io[4].text

(* C22: isOutputEnabled returns true exactly when the trimmed reply to the  *)
(* output-state query is "1" or "ON", and false for every other reply; the  *)
(* local outputEnabled flag has no part in the answer and is not changed.   *)
C22_OutputStateFromReply ==
    call.op = "isOutputEnabled" =>
        /\ SessionUnchanged
        /\ RoundTripDone(call) =>
              /\ call.err = NoErr
              /\ call.io[1].text = <<"OUTP?", "\n">>
              /\ call.flag = (Reply(call) \in {<<"1">>, <<"O", "N">>})

C22_Witness ==
    /\ call.op = "isOutputEnabled" /\ RoundTripDone(call)
    /\ Reply(call) = <<"O", "N">> /\ call.flag /\ ~outputEnabled_

(* C23: a numeric query raises the parse error whenever the trimmed reply   *)
(* is not a number (empty, no number at its start, or a number with other   *)
(* characters after it), and returns the number's value otherwise.          *)
C23_NonNumericReplyRaises ==
    (call.op \in NumOps /\ RoundTripDone(call)) =>
        IF IsNumber(Reply(call))
        THEN call.err = NoErr /\ call.num = Stod(Reply(call)).val
        ELSE call.err = ErrParse

----------------------------------------------------------------------------
\* the descriptor of a session as constructed
RatedCaps == getCapabilities([Ctx EXCEPT !.maxV = DefaultMaxVoltage,
                                         !.maxC = DefaultMaxCurrent]).caps

(* C27: every getCapabilities() of a session returns the same descriptor,   *)
(* the one of the session as constructed (30 V, 56 A, their product, one    *)
(* channel, the same feature flags), whatever operations came before it,    *)
(* setMaxVoltage and setMaxCurrent included.                                *)
C27_CapabilitiesFixed ==
    call.op = "getCapabilities" => call.err = NoErr /\ call.caps = RatedCaps

----------------------------------------------------------------------------
IsWriteOf(ev, text) == ev.t = "write" /\ ev.text = text
FailedStep(io) == \E i \in DOMAIN io : ~io[i].ok

(* C29: a connect() that succeeds on a session that was not connected       *)
(* opens the transport (the built-in one; an injected one is open already)  *)
(* and then does exactly this I/O, in this order: the identification query  *)
(* and one read, the reset command, the fault-clear command.  It returns    *)
(* with connected true and outputEnabled false, whatever outputEnabled was. *)
C29_ConnectHandshake ==
    (call.op = "connect" /\ ~call.pre.conn /\ call.err = NoErr) =>
        LET k == IF call.pre.open THEN 0 ELSE 1
        IN  /\ connected_ /\ isOpen_ /\ ~outputEnabled_
            /\ Len(call.io) = k + 4
            /\ k = 1 => call.io[1].t = "open" /\ call.io[1].ok
            /\ IsWriteOf(call.io[k + 1], <<"*IDN?", "\n">>)
            /\ call.io[k + 2].t = "read" /\ Trim(call.io[k + 2].text) # <<>>
            /\ IsWriteOf(call.io[k + 3], <<"*RST", "\n">>)
            /\ IsWriteOf(call.io[k + 4], <<"*CLS", "\n">>)

C29_Witness ==
    /\ call.op = "connect" /\ ~call.pre.conn /\ call.err = NoErr
    /\ call.pre.out /\ ~outputEnabled_
    /\ kind = "tcp" /\ call.io[1].t = "open"

(* C30: when any step of connect() fails (the transport does not open, a    *)
(* write or the read raises, the reply is empty, the reset or the           *)
(* fault-clear that follow the identity check fail), connect() raises the   *)
(* connection error and leaves the session not connected and the transport  *)
(* closed.                                                                  *)
C30_FailedConnectLeavesDisconnected ==
    /\ (call.op = "connect" /\ FailedStep(call.io)) => call.err = ErrConnFailed
    /\ (call.op = "connect" /\ call.err # NoErr)
          => call.err = ErrConnFailed /\ ~connected_ /\ ~isOpen_

C30_Witness ==
    /\ call.op = "connect" /\ call.err = ErrConnFailed
    /\ RstWritten(call.io)
    /\ \E i \in DOMAIN call.io : IsWriteOf(call.io[i], <<"*CLS", "\n">>) /\ ~call.io[i].ok
    /\ LastOf(call.io).t = "close"

----------------------------------------------------------------------------
\* the last call ran on a connected session and its read found that the
\* peer had closed the connection
PeerDropped(c) ==
    /\ WasConnected(c) /\ c.op # "connect"
    /\ \E i \in DOMAIN c.io : c.io[i].t = "read" /\ ~c.io[i].ok

(* C26: once a read on a connected session has failed because the peer      *)
(* closed the connection, the session is not connected any more             *)
(* (isConnected() is false), and the connect() that follows opens the       *)
(* transport again and repeats the identification query.                    *)
C26_DroppedConnectionDisconnects ==
    /\ [](PeerDropped(call) => ~(connected_ /\ isOpen_))
    /\ [][(PeerDropped(call) /\ call'.op = "connect")
             => /\ Len(call'.io) >= 2
                /\ call'.io[1].t = "open"
                /\ IsWriteOf(call'.io[2], <<"*IDN?", "\n">>)]_vars

----------------------------------------------------------------------------
Destroyed(c) == c.op = "destroy"

IsClose(ev) == ev.t = "close"

(* C24: destroying a session whose connected flag is set writes the         *)
(* output-off command to the transport before the transport is closed and   *)
(* lets no error escape; destroying a session whose flag is clear writes    *)
(* nothing to the transport.                                                 *)
C24_TeardownOrdering ==
    Destroyed(call) =>
        /\ call.err = NoErr
        /\ call.pre.conn =>
              /\ call.io # <<>>
              /\ IsWriteOf(call.io[1], <<"OUTP OFF", "\n">>)
              /\ \A i \in DOMAIN call.io : IsClose(call.io[i]) => i > 1
        /\ ~call.pre.conn =>
              \A i \in DOMAIN call.io : call.io[i].t # "write"

\* a connected session destroyed: the output-off write, then the close
C24_Witness ==
    /\ Destroyed(call) /\ call.pre.conn
    /\ Len(call.io) = 2
    /\ IsWriteOf(call.io[1], <<"OUTP OFF", "\n">>) /\ call.io[1].ok
    /\ IsClose(call.io[2])

(* C25: after a session that was connected is destroyed without an          *)
(* explicit disconnect(), the transport has been closed, also when the      *)
(* output-disable step of the teardown fails.                               *)
C25_TeardownReleases ==
    (Destroyed(call) /\ WasConnected(call)) =>
        /\ ~isOpen_
        /\ \E i \in DOMAIN call.io : IsClose(call.io[i])

----------------------------------------------------------------------------
\* sio[i + 1] is the read of the call that wrote sio[i]
OwnRead(i) ==
    /\ sio[i].t = "write"
    /\ sio[i + 1].t = "read"
    /\ sio[i + 1].by = sio[i].by /\ sio[i + 1].n = sio[i].n

\* the call got a reply to a query of the other thread
Foreign(t) == \E i \in DOMAIN got[t].lines : got[t].lines[i][1] # t

(* C28: the session has no lock of its own.  When every call is wrapped in  *)
(* the callers' mutex, each query's write is followed by the read of the    *)
(* same call with no other I/O of the session in between (and each read     *)
(* follows the write of its own call).  Without the mutex the order         *)
(* write(A), write(B), read, read is reachable and a caller is handed the   *)
(* reply to the other caller's query: that is the witness.                  *)
C28_ExternalMutexSerializes ==
    locking =>
        \A i \in DOMAIN sio :
            /\ sio[i].t = "write" =>
                  IF i < Len(sio) THEN OwnRead(i) ELSE pc[sio[i].by] = "written"
            /\ sio[i].t = "read" => (i > 1 /\ OwnRead(i - 1))

C28_Witness ==
    /\ ~locking
    /\ Len(sio) = 4
    /\ sio[1].t = "write" /\ sio[1].by = 1
    /\ sio[2].t = "write" /\ sio[2].by = 2
    /\ sio[3].t = "read" /\ sio[4].t = "read"
    /\ \E t \in Threads : Foreign(t)

----------------------------------------------------------------------------
\* the ceiling the last setMax call does not name
OtherCeilingKept(c) ==
    IF c.op = "setMaxVoltage" THEN maxCurrent_ = c.pre.maxC ELSE maxVoltage_ = c.pre.maxV

(* C31: setMaxVoltage and setMaxCurrent do no transport I/O (so a set-point *)
(* already sent that exceeds a tightened ceiling is neither re-sent nor     *)
(* corrected), leave connected, the transport, outputEnabled and the other  *)
(* ceiling unchanged, and their outcome does not depend on the session      *)
(* being connected: they fail only on an argument that is <= 0.             *)
C31_CeilingUpdateIsLocal ==
    call.op \in SetMaxOps =>
        /\ call.io = <<>>
        /\ connected_ = call.pre.conn /\ isOpen_ = call.pre.open
        /\ outputEnabled_ = call.pre.out
        /\ OtherCeilingKept(call)
        /\ call.err = (IF Le(call.args.v, 0) THEN ErrMaxPositive ELSE NoErr)

\* a ceiling tightened on a session that is not connected
C31_Witness ==
    /\ call.op = "setMaxVoltage" /\ call.err = NoErr
    /\ ~call.pre.conn
    /\ Lt(call.args.v, call.pre.maxV)

----------------------------------------------------------------------------
\* the bytes delivered by the first n events of a script
RECURSIVE Delivered(_, _)
Delivered(script, n) ==
    IF n = 0 THEN <<>>
    ELSE Delivered(script, n - 1) \o script[n].data

\* the first event that completes a line, the first end of file; 0 if none
FirstLine(script) ==
    LET S == {n \in DOMAIN script : HasNewline(Delivered(script, n))}
    IN  IF S = {} THEN 0 ELSE CHOOSE n \in S : \A m \in S : n <= m
FirstEof(script) ==
    LET S == {n \in DOMAIN script : script[n].k = "eof"}
    IN  IF S = {} THEN 0 ELSE CHOOSE n \in S : \A m \in S : n <= m

PortRead_(c) == c.op = "read" /\ c.pre.open

(* C32: read on an open channel returns as soon as the accumulated bytes    *)
(* contain a newline; otherwise it returns what it has accumulated          *)
(* (possibly nothing, possibly part of a line) when the timeout has         *)
(* elapsed, without raising; it raises only when the peer closes the        *)
(* connection first, and then the bytes accumulated so far are not          *)
(* returned; a timeout is never an error.                                   *)
C32_ReadReturnsLineOrTimesOut ==
    PortRead_(call) =>
        LET script == call.args.text
            nl == FirstLine(script)
            eof == FirstEof(script)
        IN  IF nl > 0 /\ (eof = 0 \/ nl < eof)
            THEN call.err = NoErr /\ call.text = Delivered(script, nl)
            ELSE IF eof > 0
            THEN call.err = ErrClosedByPeer /\ call.text = <<>>
            ELSE call.err = NoErr /\ call.text = Delivered(script, Len(script))

\* a read that times out with part of a line, after a recv error
C32_Witness ==
    /\ PortRead_(call)
    /\ call.args.text = <<Chunk(<<"1">>), RecvError, Idle>>
    /\ call.err = NoErr /\ call.text = <<"1">>

OpenedSockets(io) == Len(SelectSeq(io, LAMBDA ev : ev.t = "socket" /\ ev.ok))
ClosedSockets(io) == Len(SelectSeq(io, LAMBDA ev : ev.t = "closesocket"))

(* C33: close() is idempotent and so is open(): after close() isOpen is     *)
(* false and a close() on a closed transport does nothing; open() on an     *)
(* open transport does nothing; an open() that fails raises, leaves isOpen  *)
(* false and has released the socket it created; write and read on a        *)
(* transport that is not open raise without touching the OS handle.         *)
C33_OpenCloseIdempotent ==
    /\ call.op = "close" =>
          /\ call.err = NoErr /\ ~isOpen_
          /\ call.io = (IF call.pre.open THEN <<Sys("closesocket", TRUE)>> ELSE <<>>)
    /\ call.op = "open" =>
          /\ call.pre.open => (call.err = NoErr /\ isOpen_ /\ call.io = <<>>)
          /\ (~call.pre.open /\ call.args.text # <<"ok">>) =>
                /\ call.err # NoErr /\ ~isOpen_
                /\ OpenedSockets(call.io) = ClosedSockets(call.io)
          /\ (~call.pre.open /\ call.args.text = <<"ok">>) =>
                (call.err = NoErr /\ isOpen_)
    /\ (call.op \in {"write", "read"} /\ ~call.pre.open) =>
          /\ call.err = ErrPortNotOpen
          /\ call.io = <<>> /\ ~isOpen_

\* an open() that was refused: the socket was created and closed again
C33_Witness ==
    /\ call.op = "open" /\ call.err = ErrOpen /\ ~isOpen_
    /\ call.io = <<Sys("socket", TRUE), Sys("connect", FALSE), Sys("closesocket", TRUE)>>

----------------------------------------------------------------------------
(* C34: for a session on the built-in TCP transport, after every public     *)
(* operation has returned, normally or with an error, connected is true     *)
(* exactly when the transport is open.                                      *)
C34_ConnectedIffOpen ==
    kind = "tcp" => (connected_ <=> isOpen_)

\* a connected TCP session after its disconnect()
C34_Witness ==
    /\ kind = "tcp"
    /\ call.op = "disconnect" /\ WasConnected(call)
    /\ ~connected_ /\ ~isOpen_

----------------------------------------------------------------------------
\* only thread t has called the session so far
SingleThread(t) == \A u \in Threads \ {t} : pc[u] = "idle" /\ done[u] = 0

(* C35: on a session driven by a single thread, what a sendQuery returns    *)
(* is the reply to the query that this call wrote, never the reply to an    *)
(* earlier query, also when the earlier query timed out and its reply       *)
(* arrived after the timeout.                                               *)
C35_ReplyBelongsToQuery ==
    \A t \in Threads :
        SingleThread(t) =>
            \A i \in DOMAIN got[t].lines : got[t].lines[i] = <<t, got[t].n>>

----------------------------------------------------------------------------
CommandOps == {"setVoltage", "setCurrent", "enableOutput", "reset",
               "sendCommand", "sendQuery"}

(* C36: whenever setVoltage, setCurrent, enableOutput, reset, sendCommand   *)
(* or sendQuery returns without error, every write of the call was          *)
(* accepted by the transport in full, terminator included: a write that     *)
(* accepts fewer bytes is completed or reported, never taken for success.   *)
C36_WholeLineAccepted ==
    (call.op \in CommandOps /\ call.err = NoErr) =>
        \A i \in DOMAIN call.io :
            call.io[i].t = "write" => call.io[i].acc = Len(call.io[i].text)

----------------------------------------------------------------------------
(* C37: an explicit disconnect() writes nothing to the transport (no        *)
(* output-off, unlike the teardown) and leaves the local outputEnabled      *)
(* flag and both ceilings unchanged; all it changes is connected and the    *)
(* transport's open flag.                                                   *)
C37_DisconnectOnlyCloses ==
    call.op = "disconnect" =>
        /\ call.err = NoErr
        /\ \A i \in DOMAIN call.io : IsClose(call.io[i])
        /\ ~connected_ /\ ~isOpen_
        /\ outputEnabled_ = call.pre.out
        /\ maxVoltage_ = call.pre.maxV /\ maxCurrent_ = call.pre.maxC
        /\ errorHandler_ = call.pre.hset

\* a connected session with the output on and a ceiling of its own is
\* disconnected: the flag still says on
C37_Witness ==
    /\ call.op = "disconnect" /\ WasConnected(call)
    /\ call.pre.out /\ outputEnabled_
    /\ maxVoltage_ = MaxTick
    /\ call.io = <<Ev("close", <<>>, NoVal, TRUE)>>

----------------------------------------------------------------------------
\* a ramp at a rate > 0 on a connected session that got a number in reply
\* to its query of the programmed value, with no write or read failing
StartedRamp(c) ==
    /\ c.op \in RampOps /\ WasConnected(c) /\ Gt(c.args.rate, 0)
    /\ Len(c.io) >= 2 /\ ~FailedStep(c.io)
    /\ c.io[2].t = "read" /\ Stod(Reply(c)).ok
\* the set-points of the loop: all writes after the query but the closing one
StepValues(c) ==
    LET w == Writes(c.io)
        last == IF c.err = NoErr THEN Len(w) - 1 ELSE Len(w)
    IN  [i \in 1 .. (last - 1) |-> w[i + 1].val]
Within(c, v) == Le(0, v) /\ Le(v, CeilingOf(c))

(* C38: in a ramp whose programmed start value c and target t both lie in   *)
(* [0, ceiling], every intermediate set-point written lies between c and t  *)
(* (as printed) and the sequence moves monotonically from c toward t, so    *)
(* that no intermediate step is rejected by the limit check.                *)
C38_RampStaysBetweenStartAndTarget ==
    (StartedRamp(call) /\ Within(call, RampStart(call)) /\ Within(call, call.args.v)) =>
        LET c == RampStart(call)
            t == call.args.v
            lo == Fmt(IF c <= t THEN c ELSE t)
            hi == Fmt(IF c <= t THEN t ELSE c)
            sv == StepValues(call)
        IN  /\ call.err \notin LimitErrors
            /\ \A i \in DOMAIN sv : lo <= sv[i] /\ sv[i] <= hi
            /\ \A i, j \in DOMAIN sv :
                  i < j => IF c <= t THEN sv[i] <= sv[j] ELSE sv[i] >= sv[j]

(* C39: on a connected session with a responsive device, a ramp with a rate *)
(* > 0 and a target within [0, ceiling] runs to completion and ends with    *)
(* set(target) for every programmed start value the device reports, also    *)
(* one above the ceiling because the ceiling was tightened after it was set *)
C39_RampAlwaysCompletes ==
    (StartedRamp(call) /\ Within(call, call.args.v)) =>
        /\ call.err = NoErr
        /\ IsSetPointWrite(LastOf(call.io))
        /\ LastOf(call.io).val = Fmt(call.args.v)

----------------------------------------------------------------------------
ReadOnlyOps == {"getVoltage", "getCurrent", "measureVoltage", "measureCurrent",
                "measurePower", "getOverVoltageProtection", "isOutputEnabled",
                "getStatus", "checkError", "getIdentification", "sendQuery"}

(* C40: the read-only operations leave connected, the transport's open      *)
(* flag, the local outputEnabled flag, both ceilings and the error handler  *)
(* as they were, whether they return or raise; a live isOutputEnabled() or  *)
(* getStatus() result that differs from the local flag does not update it.  *)
C40_ReadOnlyOperationsKeepState ==
    call.op \in ReadOnlyOps => SessionUnchanged

\* the device reports the output on while the local flag says off, to
\* isOutputEnabled() or to getStatus(), and the flag stays off
C40_Witness ==
    /\ call.err = NoErr /\ ~call.pre.out /\ ~outputEnabled_
    /\ \/ call.op = "isOutputEnabled" /\ call.flag
       \/ call.op = "getStatus" /\ call.status.outputEnabled

====
